---- MODULE Spec2Model ----
(***************************************************************************)
(* The zero-delay-feedback state variable filter of src/src/lib.rs: the    *)
(* shared FilterParameters (atomic cells), the SVF with its integrator     *)
(* state s and stage outputs vout, the four solvers (run_svf_linear,       *)
(* run_svf_pivotal, run_svf_newton, run_svf_newton2), the two ticks and    *)
(* process().                                                              *)
(*                                                                         *)
(* Numbers.  An f32 quantity x is the integer x * Scale, Scale = 2^20      *)
(* (binary fixed point), kept inside TLC's 32-bit integers; products and   *)
(* quotients truncate toward zero.  Frequencies (cutoff, sample rate) are  *)
(* integers in Hz.  f32's non-finite values (inf, NaN) have no             *)
(* counterpart: Exp saturates at ExpMax, where f32 saturates at 3.4e38.    *)
(***************************************************************************)
EXTENDS Integers, Sequences, FiniteSets, TLC

VARIABLES
    cutoff,        \* FilterParameters.cutoff, Hz
    res,           \* FilterParameters.res (k of the solvers)
    drive,         \* FilterParameters.drive
    mode,          \* FilterParameters.mode
    sample_rate,   \* FilterParameters.sample_rate, Hz
    g,             \* FilterParameters.g
    s,             \* SVF.s
    vout,          \* SVF.vout
    pc,            \* where the audio thread is: idle, tick, newton, newton1, solved
    variant,       \* the tick or solver that is running or ran last
    nch,           \* channels of the buffer process() is working on
    len,           \* samples per channel of that buffer
    chan,          \* the channel process() is in
    idx,           \* the sample of that channel process() is at
    input,         \* the solver's argument `input`
    g_loc,         \* the solver's local g
    k_loc,         \* the solver's local k
    v_est,         \* the Newton loop's v_est
    residue,       \* the Newton loop's residue
    n_iterations,  \* the Newton loop's n_iterations
    out,           \* the value the solver returned
    output_sample, \* the sample process() wrote last
    writers,       \* the threads inside set_parameter(0, v): where, and their reads
    host,          \* EditorState.host is Some
    events,        \* the ParamChangeEvents emitted and not yet handled
    automation,    \* what host.automate told the host and it has not passed on
    hist           \* history of the run, read by the properties only

params == <<cutoff, res, drive, mode, sample_rate, g>>
svf == <<s, vout>>
buffer == <<nch, len, chan, idx, output_sample>>
locals == <<input, g_loc, k_loc, v_est, residue, n_iterations, out>>
control == <<writers, host, events, automation>>
vars == <<params, svf, pc, variant, buffer, locals, control, hist>>

(***************************************************************************)
(* Bounds of the exploration.                                              *)
(***************************************************************************)
MaxWrites == 1      \* set_parameter calls
MaxTicks == 3       \* solver runs (samples)
NumChannels == 2    \* channels of a buffer
BlockLen == 2       \* samples per channel of a buffer
WriteWindow == 1    \* Newton iterations during which a concurrent write is explored
MaxNewton1 == 3     \* iterations explored of run_svf_newton's uncapped loop
MaxRateChanges == 1 \* set_sample_rate calls
MaxSetups == 2      \* set_parameter calls of a test
MaxCalls == 2       \* solver calls of a test
NumWriters == 2     \* threads that call set_parameter(0, v) at the same time
MaxRaceCalls == 2   \* set_parameter(0, v) calls of each of them
MaxTurns == 3       \* knob movements on the control surface
MaxPending == 2     \* ParamChangeEvents emitted and not yet handled

(***************************************************************************)
(* Fixed-point arithmetic.                                                 *)
(***************************************************************************)
Base == 2^10
Scale == Base * Base

Abs(a) == IF a < 0 THEN -a ELSE a

Sgn(a) == IF a < 0 THEN -1 ELSE IF a > 0 THEN 1 ELSE 0

\* a * b / Scale for a, b >= 0, without an intermediate above 2^31
MulU(a, b) ==
    LET a1 == a \div Base
        a0 == a % Base
        b1 == b \div Base
        b0 == b % Base
    IN  a1 * b1 + (a1 * b0 + a0 * b1 + (a0 * b0) \div Base) \div Base

Mul(a, b) == Sgn(a) * Sgn(b) * MulU(Abs(a), Abs(b))

\* the first n binary digits of r / b, for 0 <= r < b
RECURSIVE Frac(_, _, _)
Frac(r, b, n) ==
    IF n = 0 THEN 0
    ELSE LET d == IF 2 * r >= b THEN 1 ELSE 0
         IN  d * 2^(n - 1) + Frac(2 * r - d * b, b, n - 1)

DivU(a, b) == (a \div b) * Scale + Frac(a % b, b, 20)

Div(a, b) == Sgn(a) * Sgn(b) * DivU(Abs(a), Abs(b))

\* 1 + r/1 * (1 + r/2 * (1 + ... )): the Taylor series of e^r, 0 <= r < ln 2
RECURSIVE Horner(_, _, _)
Horner(r, i, a) ==
    IF i = 0 THEN a ELSE Horner(r, i - 1, Scale + Mul(r, a) \div i)

ExpMax == 4 * Scale
ExpMin == 16 * Scale

\* e^y = 2^n * e^r with y = n * ln 2 + r; ln 2 = 726817 / 2^20
Exp(y) ==
    IF y < -ExpMin THEN 0
    ELSE LET z == IF y > ExpMax THEN ExpMax ELSE y
             n == z \div 726817
             e == Horner(z - n * 726817, 10, Scale)
         IN  IF n >= 0 THEN e * 2^n ELSE e \div 2^(-n)

Sinh(y) == Sgn(y) * ((Exp(Abs(y)) - Exp(-Abs(y))) \div 2)

Cosh(y) == (Exp(Abs(y)) + Exp(-Abs(y))) \div 2

Tanh(y) == LET e == Exp(-2 * Abs(y)) IN Sgn(y) * DivU(Scale - e, Scale + e)

\* Newton's iteration x <- (x + a/x) / 2 for the square root of a >= 0
RECURSIVE SqrtIter(_, _, _)
SqrtIter(a, x, n) ==
    IF n = 0 THEN x ELSE SqrtIter(a, (x + DivU(a, x)) \div 2, n - 1)

Sqrt(a) == IF a = 0 THEN 0 ELSE SqrtIter(a, (a + Scale) \div 2, 12)

\* z + z^3/3 + z^5/5 + ... as z * (1 + z^2 * (1/3 + z^2 * (1/5 + ...)))
RECURSIVE AtanhSeries(_, _, _)
AtanhSeries(z2, i, a) ==
    IF i < 1 THEN a ELSE AtanhSeries(z2, i - 2, Scale \div i + Mul(z2, a))

\* ln y = n * ln 2 + 2 * atanh((m - 1) / (m + 1)) with y = 2^n * m, for y >= 1
RECURSIVE Ln(_)
Ln(y) ==
    IF y >= 2 * Scale THEN 726817 + Ln(y \div 2)
    ELSE LET z == DivU(y - Scale, y + Scale)
         IN  2 * Mul(z, AtanhSeries(Mul(z, z), 11, 0))

Asinh(y) == Sgn(y) * Ln(Abs(y) + Sqrt(Mul(y, y) + Scale))

\* x - x^3/3! + x^5/5! - ... as x * (1 - x^2/(2*3) * (1 - x^2/(4*5) * ...))
RECURSIVE SinSeries(_, _, _)
SinSeries(x2, i, a) ==
    IF i = 0 THEN a
    ELSE SinSeries(x2, i - 2, Scale - Mul(x2, a) \div (i * (i + 1)))

Sin(y) == Mul(y, SinSeries(Mul(y, y), 12, Scale))

\* 1 - x^2/2! + x^4/4! - ... as 1 - x^2/(1*2) * (1 - x^2/(3*4) * ...)
RECURSIVE CosSeries(_, _, _)
CosSeries(x2, i, a) ==
    IF i < 0 THEN a
    ELSE CosSeries(x2, i - 2, Scale - Mul(x2, a) \div (i * (i + 1)))

Cos(y) == CosSeries(Mul(y, y), 13, Scale)

Tan(y) == Div(Sin(y), Cos(y))

\* std::f32::consts::PI = 3.14159274 as a multiple of 1/Scale
PI == 3294199

(***************************************************************************)
(* The parameter cells.  FilterParameters::default and the ParameterF32    *)
(* cells (get, set_normalized, get_normalized) are not among the sources;  *)
(* they are atomic scalar cells (spec section 9) holding the spec's data   *)
(* model (section 3): cutoff in Hz, resonance and drive normalized, mode   *)
(* one of six responses.  The default is the spec's concrete scenario      *)
(* (section 8): 44100 Hz, cutoff 1000 Hz, resonance 0, drive 0, lowpass.   *)
(***************************************************************************)
DefaultSampleRate == 44100
DefaultCutoff == 1000
MaxCutoff == 20000
NumModes == 6

\* v * n / Scale rounded to the nearest integer, v a normalized value
ScaleTo(v, n) ==
    ((v \div Base) * n + ((v % Base) * n) \div Base + Base \div 2) \div Base

cutoff_set_normalized(v) == ScaleTo(v, MaxCutoff)
cutoff_get_normalized(c) == DivU(c, MaxCutoff)
res_set_normalized(v) == v
res_get_normalized(r) == r
drive_set_normalized(v) == v
drive_get_normalized(d) == d
mode_set_normalized(v) == ScaleTo(v, NumModes - 1)
mode_get_normalized(m) == DivU(m, NumModes - 1)

\* the normalized value the control thread writes: 0.6
Values == {(3 * Scale) \div 5}
\* the indices it writes to: 0..3 are handled, 4 is the unhandled "dry/wet"
Indices == 0..4
\* the sample rates the host sets
SampleRates == {48000}
\* the samples the host feeds: silence, the test's 0.5 impulse, a hot sample
Inputs == {0, 6 * Scale}

\* the normalized values racing set_parameter(0, v) calls and the knobs of the
\* control surface write: 0.2, 0.6
RaceValues == {Scale \div 5, (3 * Scale) \div 5}

\* the knobs of plugin_gui
Knobs == {"cutoff", "resonance", "drive", "mode_or_slope"}

\* what params.filter_type.get() can give when the last knob is built
FilterTypes == {0, 1}

\* the parameter_index of the AllParams event a knob emits
emitted_index(knob, ft) ==
    CASE knob = "cutoff" -> 0
      [] knob = "resonance" -> 1
      [] knob = "drive" -> 2
      [] knob = "mode_or_slope" -> IF ft = 0 THEN 4 ELSE 5

\* the samples the tests feed: input_sample = 0.5, then 0.0
TestInputs == {0, Scale \div 2}

\* the normalized values of the six modes
ModeValues == {(m * Scale) \div (NumModes - 1) : m \in 0..(NumModes - 1)}

(***************************************************************************)
(* FilterParameters                                                        *)
(***************************************************************************)
\* update_g: g = tan(PI * cutoff / sample_rate), the quotient taken first
update_g(c, sr) == Tan(Mul(PI, Frac(c, sr, 20)))

get_parameter(index) ==
    CASE index = 0 -> cutoff_get_normalized(cutoff)
      [] index = 1 -> res_get_normalized(res)
      [] index = 2 -> drive_get_normalized(drive)
      [] index = 3 -> mode_get_normalized(mode)
      [] OTHER -> 0

\* set_parameter with a default arm that writes drive
set_parameter_default_drive(index, value) ==
    [cutoff |-> IF index = 0 THEN cutoff_set_normalized(value) ELSE cutoff,
     res |-> IF index = 1 THEN res_set_normalized(value) ELSE res,
     drive |-> IF index \in {0, 1, 3} THEN drive ELSE drive_set_normalized(value),
     mode |-> IF index = 3 THEN mode_set_normalized(value) ELSE mode,
     g |-> IF index = 0 THEN update_g(cutoff_set_normalized(value), sample_rate) ELSE g]

\* the parameter cells after set_parameter(index, value)
set_parameter(index, value) ==
    CASE index = 0 ->
           [cutoff |-> cutoff_set_normalized(value), res |-> res,
            drive |-> drive, mode |-> mode,
            g |-> update_g(cutoff_set_normalized(value), sample_rate)]
      [] index = 1 ->
           [cutoff |-> cutoff, res |-> res_set_normalized(value),
            drive |-> drive, mode |-> mode, g |-> g]
      [] index = 2 ->
           [cutoff |-> cutoff, res |-> res,
            drive |-> drive_set_normalized(value), mode |-> mode, g |-> g]
      [] index = 3 ->
           [cutoff |-> cutoff, res |-> res, drive |-> drive,
            mode |-> mode_set_normalized(value), g |-> g]
      [] OTHER ->
           [cutoff |-> cutoff, res |-> res, drive |-> drive,
            mode |-> mode, g |-> g]

\* the sample rate cell after SVF::set_sample_rate(rate); g is not touched
set_sample_rate(rate) == [sample_rate |-> rate, g |-> g]

(***************************************************************************)
(* SVF.  Rust's s[0], s[1] are s[1], s[2] here, and so for vout, v_est,    *)
(* residue.                                                                *)
(***************************************************************************)
\* update_state: s after the trapezoidal update from vout
\* the input of a tick's solver: input * (drive + 1)
driven(x, d) == Mul(x, d + Scale)

\* run_svf_linear up to its match: the vout it stores
run_svf_linear_vout(inp, st) ==
    LET g1 == Div(Scale, Scale + Mul(g, g + res))
        g2 == Mul(g, g1)
        v0 == Mul(g1, st[1]) + Mul(g2, inp - st[2])
    IN  <<v0, st[2] + Mul(g, v0)>>

\* the match of run_svf_linear
run_svf_linear_out(m, inp, k, vo) ==
    CASE m = 0 -> vo[2]
      [] m = 1 -> inp - Mul(k, vo[1]) - vo[2]
      [] m = 2 -> vo[1]
      [] m = 3 -> inp - Mul(k, vo[1])
      [] m = 4 -> inp - 2 * vo[2] - Mul(k, vo[1])
      [] OTHER -> Mul(k, vo[1])

\* the estimates get_estimate runs the linear filter for
runs_linear(estimate) == estimate \in {"LinearStateEstimate", "LinearVoutEstimate"}

\* the multiplications by (drive + 1) one get_estimate call makes
estimate_gains(estimate) == IF runs_linear(estimate) THEN 1 ELSE 0

\* est_type of run_svf_pivotal
est_type_pivotal == "State"

\* est_type of run_svf_newton
est_type_newton == "LinearVoutEstimate"

\* the est_type that run_svf_newton2 has commented out
est_type_newton2_linear == "LinearVoutEstimate"

\* est_type of run_svf_newton2
est_type_newton2 == "State"

\* get_estimate(n, estimate, input): the value it returns and the vout it
\* leaves (the linear estimates run run_svf_linear on the driven input)
get_estimate(n, estimate, inp, st, vo) ==
    LET linear == runs_linear(estimate)
        vo2 == IF linear THEN run_svf_linear_vout(driven(inp, drive), st) ELSE vo
    IN  [vout |-> vo2,
         value |-> CASE estimate = "State" -> st[n + 1]
                     [] estimate = "PreviousVout" -> vo2[n + 1]
                     [] estimate = "LinearStateEstimate" -> 2 * vo2[n + 1] - st[n + 1]
                     [] estimate = "LinearVoutEstimate" -> vo2[n + 1]]

v_t == 4 * Scale
i_s == 4 * Scale

\* tanh(x) / x, the fixed-pivot gain of a tanh stage; 1 at x = 0
pivot(x) == IF x # 0 THEN Div(Tanh(x), x) ELSE Scale

\* run_svf_pivotal from u on: vout[0] = asinh(u), vout[1]
pivotal_vout(st, a1, u) == <<Asinh(u), Mul(Mul(g, a1), Asinh(u)) + st[2]>>

\* run_svf_pivotal from g3 on
pivotal_u(inp, st, a0, a1, g1, g2, g3) ==
    pivotal_vout(st, a1,
        Mul(Mul(Mul(Mul(Mul(g, a0), inp) - Mul(Mul(g, a0), st[2]) + st[1], g1), g2), g3))

\* run_svf_pivotal from g2 on
pivotal_g3(inp, st, a0, a1, a2, g1, g2) ==
    pivotal_u(inp, st, a0, a1, g1, g2,
        Div(Scale, Scale + Mul(Mul(Mul(Mul(Mul(Mul(g, g), a0), a1), g1), g2), a2)))

\* run_svf_pivotal from g1 on
pivotal_g2(inp, st, a0, a1, a2, g1) ==
    pivotal_g3(inp, st, a0, a1, a2, g1,
        Div(Scale, Mul(Mul(Mul(Mul(a0, a2), g), g1), res) - Mul(Mul(Mul(a0, a2), g), g1)
                   + Mul(a2, g1) + Scale))

\* run_svf_pivotal from the fixed-pivot gains a on
pivotal_g1(inp, st, a0, a1, a2) == pivotal_g2(inp, st, a0, a1, a2, Div(Scale, Mul(g, a0)))

\* run_svf_pivotal from a[2] on: est_source_rest and a[0], a[1]
pivotal_a(inp, st, est_source_a2, est1, est0, a2) ==
    pivotal_g1(inp, st,
        pivot(inp - (Mul(est_source_a2, a2) + Mul(res - Scale, est_source_a2)) - est1),
        pivot(est0), a2)

\* a[2], clipped with the inverse of the diode anti-saturator
pivotal_a2(est_source_a2) ==
    IF est_source_a2 # 0
    THEN Div(Mul(v_t, Asinh(Div(est_source_a2, i_s))), est_source_a2)
    ELSE Scale

\* run_svf_pivotal from the estimates on
pivotal_est(inp, st, est_source_a2, est1, est0) ==
    pivotal_a(inp, st, est_source_a2, est1, est0, pivotal_a2(est_source_a2))

\* run_svf_pivotal up to its match: the vout it stores
run_svf_pivotal_vout(inp, st, vo) ==
    pivotal_est(inp, st, get_estimate(0, est_type_pivotal, inp, st, vo).value,
                         get_estimate(1, est_type_pivotal, inp, st, vo).value,
                         get_estimate(0, est_type_pivotal, inp, st, vo).value)

\* the match of run_svf_pivotal with the allpass arm for mode 3
run_svf_pivotal_out_allpass(m, inp, k, vo) ==
    CASE m = 0 -> vo[2]
      [] m = 1 -> inp - Mul(k, vo[1]) - vo[2]
      [] m = 2 -> vo[1]
      [] m = 3 -> inp - 2 * Mul(k, vo[2])
      [] m = 4 -> inp - 2 * vo[2] - Mul(k, vo[1])
      [] OTHER -> Mul(k, vo[1])

\* the match of run_svf_pivotal
run_svf_pivotal_out(m, inp, k, vo) ==
    CASE m = 0 -> vo[2]
      [] m = 1 -> inp - Mul(k, vo[1]) - vo[2]
      [] m = 2 -> vo[1]
      [] m = 3 -> inp - Mul(k, vo[1])
      [] m = 4 -> inp - 2 * vo[2] - Mul(k, vo[1])
      [] OTHER -> Mul(k, vo[1])

\* the update with the sign of the old state flipped
update_state_added(st, vo) == <<2 * vo[1] + st[1], 2 * vo[2] + st[2]>>

update_state(st, vo) == <<2 * vo[1] - st[1], 2 * vo[2] - st[2]>>

\* run_svf that leaves out[1] at the 1.0 it is initialised with
run_svf_stale_out(gg, kk, inp, v, st) ==
    <<Mul(gg, Tanh(inp - (Mul(kk - Scale, v[1]) + Sinh(v[1])) - v[2])) + st[1],
      Scale>>

\* run_svf, the helper of Newton's method; gg and kk are params.g, params.res
run_svf(gg, kk, inp, v, st) ==
    <<Mul(gg, Tanh(inp - (Mul(kk - Scale, v[1]) + Sinh(v[1])) - v[2])) + st[1],
      Mul(gg, Tanh(v[1])) + st[2]>>

\* max_error of run_svf_newton2, 0.00001
max_error == Scale \div 100000
\* the iteration cap of run_svf_newton2
MaxIterations == 100

\* the loop condition of run_svf_newton2
above_tolerance(r) == Abs(r[1]) > max_error \/ Abs(r[2]) > max_error

\* the cap tested one update later
over_cap_late(n) == n > MaxIterations + 1

\* the break of run_svf_newton2
over_cap(n) == n > MaxIterations

\* one Newton update of run_svf_newton2: the new v_est
newton2_update(gl, kl, inp, v, r) ==
    LET sh == Sinh(v[1])
        ch == Cosh(v[1])
        c == Cosh(Mul(v[1], kl) + sh - inp - v[1] + v[2])
        bigboy == Mul(c, c)
        j00 == Div(-bigboy - Mul(gl, kl - Scale + ch), bigboy)
        j01 == -Div(gl, bigboy)
        j10 == Div(gl, Mul(ch, ch))
        den == Mul(j01, j10) + j00
    IN  <<Div(Mul(Mul(j01, j10), v[1]) + Mul(j00, v[1]) - Mul(j01, r[2]) - r[1],
              den),
          Div(Mul(Mul(j01, j10), v[2]) + Mul(j00, r[2]) + Mul(j00, v[2])
                - Mul(j10, r[1]),
              den)>>

\* the output selection of run_svf_newton2
run_svf_newton2_out(m, inp, k, vo) ==
    CASE m = 0 -> vo[2]
      [] m = 1 -> inp - Mul(k, vo[1]) - vo[2]
      [] m = 2 -> vo[1]
      [] m = 3 -> inp - Mul(k, vo[1])
      [] m = 4 -> inp - 2 * vo[2] - Mul(k, vo[1])
      [] OTHER -> Mul(k, vo[1])

\* one pass of the while loop of run_svf_newton: the new v_est
newton_update(gl, kl, inp, v, r) ==
    LET th == Tanh(v[1])
        d == Mul(Mul(th, th) - Scale, gl)
        tf == Tanh(inp - (Mul(kl - Scale, v[1]) + Sinh(v[1])) + v[1])
        j01 == -Div(Scale, d)
        j10 == Div(Scale, Mul(Mul(tf, tf) - Scale, -gl))
        j11 == Div(kl - Scale + Cosh(v[1]), d)
        minusboy == <<Mul(j01, r[2]), Mul(j10, r[1]) + Mul(j11, r[2])>>
    IN  <<v[1] - minusboy[1], v[2] - minusboy[2]>>

\* the tolerance of run_svf_newton, 0.001
max_error1 == Scale \div 1000

above_tolerance1(r) == Abs(r[1]) > max_error1 \/ Abs(r[2]) > max_error1

\* the match of run_svf_newton
run_svf_newton_out(m, inp, k, vo) ==
    CASE m = 0 -> vo[2]
      [] m = 1 -> inp - Mul(k, vo[1]) - vo[2]
      [] m = 2 -> vo[1]
      [] m = 3 -> inp - Mul(k, vo[1])
      [] m = 4 -> inp - 2 * vo[2] - Mul(k, vo[1])
      [] OTHER -> Mul(k, vo[1])

(***************************************************************************)
(* The state after construction; h tells whether there is a host.          *)
(***************************************************************************)
Fresh(h) ==
    /\ cutoff = DefaultCutoff
    /\ res = 0
    /\ drive = 0
    /\ mode = 0
    /\ sample_rate = DefaultSampleRate
    /\ g = update_g(DefaultCutoff, DefaultSampleRate)
    /\ s = <<0, 0>>
    /\ vout = <<0, 0>>
    /\ pc = "idle"
    /\ variant = "none"
    /\ nch = 0
    /\ len = 0
    /\ chan = 0
    /\ idx = 0
    /\ input = 0
    /\ g_loc = 0
    /\ k_loc = 0
    /\ v_est = <<0, 0>>
    /\ residue = <<0, 0>>
    /\ n_iterations = 0
    /\ out = 0
    /\ output_sample = 0
    /\ hist = [op |-> "init",       \* the operation that ran last
               index |-> 0,         \* the index, when that was set_parameter
               value |-> 0,         \* the value, when that was set_parameter
               before |-> 0,        \* get_parameter(index) before it, likewise
               writes |-> 0,        \* set_parameter calls so far
               rates |-> 0,         \* set_sample_rate calls so far
               ticks |-> 0,         \* solver runs so far
               s_pre |-> <<0, 0>>,  \* s when the running solver was entered
               blk |-> <<0, 0, 0, 0>>, \* g, res, drive, mode when process() was entered
               drive_used |-> 0,    \* the drive the running tick read
               raw |-> 0,           \* the sample the running solver was called with
               gains |-> 0,         \* multiplications by (drive + 1) on its way in
               zeros |-> 0,         \* tick_newton(0) calls while no other solver call ran
               turns |-> 0,         \* knob movements so far
               mode_used |-> 0,     \* the mode the last solver read
               owner |-> 0,         \* the channel whose tick wrote s, vout last
               foreign |-> FALSE,   \* the running tick found another channel's state
               capped |-> FALSE,    \* the last Newton loop left by its cap
               caps |-> 0]          \* Newton loops left by their cap so far
    /\ writers = [t \in 1..NumWriters |->
                     [pc |-> "idle",   \* idle, read_cutoff, read_rate, write_g
                      cutoff |-> 0,    \* the cutoff its update_g read
                      rate |-> 0,      \* the sample rate its update_g read
                      calls |-> 0]]    \* its set_parameter calls so far
    /\ host = h
    /\ events = <<>>
    /\ automation = <<>>

\* SVF::default(): no host
Init == Fresh(FALSE)

\* Plugin::new(host)
New == Fresh(TRUE)

(***************************************************************************)
(* The control thread and the host.                                        *)
(***************************************************************************)
\* PluginParameters::set_parameter, on the shared Arc<FilterParameters>
SetParameter(index, value) ==
    /\ LET p == set_parameter(index, value)
       IN  /\ cutoff' = p.cutoff
           /\ res' = p.res
           /\ drive' = p.drive
           /\ mode' = p.mode
           /\ g' = p.g
    /\ hist' = [hist EXCEPT !.op = "set_parameter", !.index = index,
                            !.value = value, !.before = get_parameter(index),
                            !.writes = @ + 1]
    /\ UNCHANGED <<sample_rate, svf, pc, variant, buffer, locals>>

\* a set_parameter call of the control thread, at any point of the audio thread
ControlWrite(index, value) ==
    /\ hist.writes < MaxWrites
    /\ pc = "newton" => n_iterations < WriteWindow
    /\ SetParameter(index, value)
    /\ UNCHANGED control

\* set_sample_rate that also clears the integrators
SetSampleRateResets(rate) ==
    /\ pc = "idle"
    /\ hist.rates < MaxRateChanges
    /\ sample_rate' = rate
    /\ s' = <<0, 0>>
    /\ vout' = <<0, 0>>
    /\ hist' = [hist EXCEPT !.op = "set_sample_rate", !.index = 0, !.value = 0,
                            !.before = 0, !.rates = @ + 1]
    /\ UNCHANGED <<control, cutoff, res, drive, mode, g, pc, variant, buffer, locals>>

\* Plugin::set_sample_rate; it takes &mut self, so process() is not running
SetSampleRate(rate) ==
    /\ pc = "idle"
    /\ hist.rates < MaxRateChanges
    /\ LET p == set_sample_rate(rate)
       IN  /\ sample_rate' = p.sample_rate
           /\ g' = p.g
    /\ hist' = [hist EXCEPT !.op = "set_sample_rate", !.index = 0, !.value = 0,
                            !.before = 0, !.rates = @ + 1]
    /\ UNCHANGED <<control, cutoff, res, drive, mode, svf, pc, variant, buffer, locals>>

(***************************************************************************)
(* The audio thread.                                                       *)
(***************************************************************************)
\* Plugin::process on a buffer of n channels of l samples: enter the loops
Process(n, l) ==
    /\ pc = "idle"
    /\ hist.ticks + n * l <= MaxTicks
    /\ pc' = "tick"
    /\ variant' = "process"
    /\ nch' = n
    /\ len' = l
    /\ chan' = 1
    /\ idx' = 1
    /\ hist' = [hist EXCEPT !.op = "process", !.index = 0, !.value = 0,
                            !.before = 0, !.blk = <<g, res, drive, mode>>]
    /\ UNCHANGED <<control, params, svf, output_sample, locals>>

\* tick_newton(x) up to the Newton loop of run_svf_newton2: the drive gain,
\* the locals g and k, the estimate of est_type and its residue
tick_newton(x) ==
    /\ \E inp \in {driven(x, drive)} :
       \E e0 \in {get_estimate(0, est_type_newton2, inp, s, vout)} :
       \E e1 \in {get_estimate(1, est_type_newton2, inp, s, e0.vout)} :
       \E est \in {<<e0.value, e1.value>>} :
       \E filter_out \in {run_svf(g, res, inp, est, s)} :
           /\ input' = inp
           /\ vout' = e1.vout
           /\ v_est' = est
           /\ residue' = <<filter_out[1] - est[1], filter_out[2] - est[2]>>
    /\ g_loc' = g
    /\ k_loc' = res
    /\ n_iterations' = 0
    /\ pc' = "newton"
    /\ variant' = "tick_newton"
    /\ hist' = [hist EXCEPT !.op = "tick_newton", !.index = 0, !.value = 0,
                            !.before = 0, !.ticks = @ + 1, !.s_pre = s,
                            !.drive_used = drive, !.raw = x,
                            !.gains = 1 + 2 * estimate_gains(est_type_newton2),
                            !.zeros = IF x = 0 /\ @ = hist.ticks THEN @ + 1 ELSE @,
                            !.foreign = (hist.owner \notin {0, chan}),
                            !.owner = chan, !.capped = FALSE]
    /\ UNCHANGED <<control, params, s, buffer, out>>

\* process() calls tick_newton on the next sample of the buffer
TickNewton(x) ==
    /\ pc = "tick"
    /\ tick_newton(x)

\* one pass of the while loop of run_svf_newton2
NewtonIter ==
    /\ pc = "newton"
    /\ above_tolerance(residue) = TRUE
    /\ ~over_cap(n_iterations)
    /\ \E v \in {newton2_update(g_loc, k_loc, input, v_est, residue)} :
       \E filter_out \in {run_svf(g, res, input, v, s)} :
           /\ v_est' = v
           /\ residue' = <<filter_out[1] - v[1], filter_out[2] - v[2]>>
    /\ n_iterations' = n_iterations + 1
    /\ hist' = [hist EXCEPT !.op = "newton_iter", !.index = 0, !.value = 0, !.before = 0]
    /\ UNCHANGED <<control, params, svf, pc, variant, buffer, input, g_loc, k_loc, out>>

\* the loop's exit that stores the estimate only when it converged
NewtonExitDropsEstimate ==
    /\ pc = "newton"
    /\ ~above_tolerance(residue) \/ over_cap(n_iterations)
    /\ vout' = IF above_tolerance(residue) THEN vout ELSE v_est
    /\ out' = run_svf_newton2_out(mode, input, k_loc, v_est)
    /\ pc' = "solved"
    /\ hist' = [hist EXCEPT !.op = "newton_exit", !.index = 0, !.value = 0,
                            !.before = 0, !.mode_used = mode,
                            !.capped = above_tolerance(residue),
                            !.caps = IF above_tolerance(residue) THEN @ + 1 ELSE @]
    /\ UNCHANGED <<control, params, s, variant, buffer, input, g_loc, k_loc, v_est,
                   residue, n_iterations>>

\* the loop of run_svf_newton2 is left: vout and the output of the mode
NewtonExit ==
    /\ pc = "newton"
    /\ ~above_tolerance(residue) \/ over_cap(n_iterations)
    /\ vout' = v_est
    /\ out' = run_svf_newton2_out(mode, input, k_loc, v_est)
    /\ pc' = "solved"
    /\ hist' = [hist EXCEPT !.op = "newton_exit", !.index = 0, !.value = 0,
                            !.before = 0, !.mode_used = mode,
                            !.capped = above_tolerance(residue),
                            !.caps = IF above_tolerance(residue) THEN @ + 1 ELSE @]
    /\ UNCHANGED <<control, params, s, variant, buffer, input, g_loc, k_loc, v_est,
                   residue, n_iterations>>

\* the tick's update_state, then process() stores the sample and moves on
UpdateState ==
    /\ pc = "solved"
    /\ s' = update_state(s, vout)
    /\ output_sample' = out
    /\ IF idx < len THEN /\ pc' = "tick"
                         /\ idx' = idx + 1
                         /\ UNCHANGED <<nch, len, chan>>
       ELSE IF chan < nch THEN /\ pc' = "tick"
                               /\ idx' = 1
                               /\ chan' = chan + 1
                               /\ UNCHANGED <<nch, len>>
       ELSE /\ pc' = "idle"        \* the caller's buffer is gone
            /\ nch' = 0
            /\ len' = 0
            /\ chan' = 0
            /\ idx' = 0
    /\ hist' = [hist EXCEPT !.op = "update_state", !.index = 0, !.value = 0, !.before = 0]
    /\ UNCHANGED <<control, params, vout, variant, locals>>

(***************************************************************************)
(* The solvers called one after the other on an SVF, as the tests of       *)
(* lib.rs call tick_newton: no buffer and no second thread.                *)
(***************************************************************************)
\* a set_parameter call between two solver calls
TestWrite(index, value) ==
    /\ pc = "idle"
    /\ hist.writes < MaxSetups
    /\ SetParameter(index, value)
    /\ UNCHANGED control

\* plugin.tick_newton(x)
TestTickNewton(x) ==
    /\ pc = "idle"
    /\ hist.ticks < MaxCalls
    /\ tick_newton(x)

\* plugin.tick_pivotal(x) up to its update_state
TickPivotal(x) ==
    /\ pc = "idle"
    /\ hist.ticks < MaxCalls
    /\ \E inp \in {driven(x, drive)} :
       \E vo \in {run_svf_pivotal_vout(inp, s, vout)} :
           /\ input' = inp
           /\ vout' = vo
           /\ out' = run_svf_pivotal_out(mode, inp, res, vo)
    /\ k_loc' = res
    /\ g_loc' = g
    /\ pc' = "solved"
    /\ variant' = "tick_pivotal"
    /\ hist' = [hist EXCEPT !.op = "tick_pivotal", !.index = 0, !.value = 0, !.before = 0,
                            !.ticks = @ + 1, !.s_pre = s, !.drive_used = drive,
                            !.raw = x,
                            !.gains = 1 + 3 * estimate_gains(est_type_pivotal),
                            !.mode_used = mode, !.capped = FALSE]
    /\ UNCHANGED <<control, params, s, buffer, v_est, residue, n_iterations>>

\* plugin.run_svf_linear(x)
RunSvfLinear(x) ==
    /\ pc = "idle"
    /\ hist.ticks < MaxCalls
    /\ \E vo \in {run_svf_linear_vout(x, s)} :
           /\ vout' = vo
           /\ out' = run_svf_linear_out(mode, x, res, vo)
    /\ input' = x
    /\ k_loc' = res
    /\ g_loc' = g
    /\ variant' = "run_svf_linear"
    /\ hist' = [hist EXCEPT !.op = "run_svf_linear", !.index = 0, !.value = 0, !.before = 0,
                            !.ticks = @ + 1, !.s_pre = s, !.mode_used = mode,
                            !.raw = x, !.gains = 0, !.capped = FALSE]
    /\ UNCHANGED <<control, params, s, pc, buffer, v_est, residue, n_iterations>>

\* plugin.run_svf_newton(x) up to its while loop: the linear estimate, then
\* the fixed-pivot estimate that replaces it, and its residue
RunSvfNewton(x) ==
    /\ pc = "idle"
    /\ hist.ticks < MaxCalls
    /\ \E lin \in {get_estimate(1, est_type_newton, x, s,
                                 get_estimate(0, est_type_newton, x, s, vout).vout).vout} :
       \E est \in {run_svf_pivotal_vout(x, s, lin)} :
       \E filter_out \in {run_svf(g, res, x, est, s)} :
           /\ vout' = est
           /\ v_est' = est
           /\ residue' = <<filter_out[1] - est[1], filter_out[2] - est[2]>>
    /\ input' = x
    /\ g_loc' = g
    /\ k_loc' = res
    /\ n_iterations' = 0
    /\ pc' = "newton1"
    /\ variant' = "run_svf_newton"
    /\ hist' = [hist EXCEPT !.op = "run_svf_newton", !.index = 0, !.value = 0, !.before = 0,
                            !.ticks = @ + 1, !.s_pre = s, !.raw = x,
                            !.gains = 2 * estimate_gains(est_type_newton)
                                      + 3 * estimate_gains(est_type_pivotal),
                            !.capped = FALSE]
    /\ UNCHANGED <<control, params, s, buffer, out>>

\* one pass of the while loop of run_svf_newton
Newton1Iter ==
    /\ pc = "newton1"
    /\ above_tolerance1(residue) = TRUE
    /\ n_iterations < MaxNewton1
    /\ \E v \in {newton_update(g_loc, k_loc, input, v_est, residue)} :
       \E filter_out \in {run_svf(g, res, input, v, s)} :
           /\ v_est' = v
           /\ residue' = <<filter_out[1] - v[1], filter_out[2] - v[2]>>
    /\ n_iterations' = n_iterations + 1
    /\ hist' = [hist EXCEPT !.op = "newton1_iter", !.index = 0, !.value = 0, !.before = 0]
    /\ UNCHANGED <<control, params, svf, pc, variant, buffer, input, g_loc, k_loc, out>>

\* the loop of run_svf_newton is left: vout and the output of the mode
Newton1Exit ==
    /\ pc = "newton1"
    /\ above_tolerance1(residue) = FALSE
    /\ vout' = v_est
    /\ out' = run_svf_newton_out(mode, input, k_loc, v_est)
    /\ pc' = "idle"
    /\ hist' = [hist EXCEPT !.op = "newton1_exit", !.index = 0, !.value = 0, !.before = 0,
                            !.mode_used = mode]
    /\ UNCHANGED <<control, params, s, variant, buffer, input, g_loc, k_loc, v_est,
                   residue, n_iterations>>

(***************************************************************************)
(* Threads that call set_parameter(0, value) on the shared                 *)
(* Arc<FilterParameters> at the same time; every access of a cell is one   *)
(* step.                                                                   *)
(***************************************************************************)
\* set_parameter(0, value) is entered: self.cutoff.set_normalized(value)
WriteCutoff(t, value) ==
    /\ writers[t].pc = "idle"
    /\ writers[t].calls < MaxRaceCalls
    /\ cutoff' = cutoff_set_normalized(value)
    /\ writers' = [writers EXCEPT ![t].pc = "read_cutoff", ![t].calls = @ + 1]
    /\ hist' = [hist EXCEPT !.op = "write_cutoff", !.index = 0, !.value = 0,
                            !.before = 0, !.writes = @ + 1]
    /\ UNCHANGED <<res, drive, mode, sample_rate, g, svf, pc, variant, buffer, locals,
                   host, events, automation>>

\* update_g: self.cutoff.get()
ReadCutoff(t) ==
    /\ writers[t].pc = "read_cutoff"
    /\ writers' = [writers EXCEPT ![t].pc = "read_rate", ![t].cutoff = cutoff]
    /\ hist' = [hist EXCEPT !.op = "read_cutoff", !.index = 0, !.value = 0, !.before = 0]
    /\ UNCHANGED <<params, svf, pc, variant, buffer, locals, host, events, automation>>

\* update_g: self.sample_rate.get()
ReadRate(t) ==
    /\ writers[t].pc = "read_rate"
    /\ writers' = [writers EXCEPT ![t].pc = "write_g", ![t].rate = sample_rate]
    /\ hist' = [hist EXCEPT !.op = "read_rate", !.index = 0, !.value = 0, !.before = 0]
    /\ UNCHANGED <<params, svf, pc, variant, buffer, locals, host, events, automation>>

\* update_g: self.g.set(...) of what it read, and set_parameter returns
WriteG(t) ==
    /\ writers[t].pc = "write_g"
    /\ g' = update_g(writers[t].cutoff, writers[t].rate)
    /\ writers' = [writers EXCEPT ![t].pc = "idle", ![t].cutoff = 0, ![t].rate = 0]
    /\ hist' = [hist EXCEPT !.op = "write_g", !.index = 0, !.value = 0, !.before = 0]
    /\ UNCHANGED <<cutoff, res, drive, mode, sample_rate, svf, pc, variant, buffer,
                   locals, host, events, automation>>

(***************************************************************************)
(* The control surface: plugin_gui's knobs, Params::event, and the host    *)
(* that host.automate reports to.                                          *)
(***************************************************************************)
\* on_changing of a knob: cx.emit(ParamChangeEvent::AllParams(index, value))
KnobChanging(knob, ft, value) ==
    /\ hist.turns < MaxTurns
    /\ Len(events) < MaxPending
    /\ events' = Append(events, <<emitted_index(knob, ft), value>>)
    /\ hist' = [hist EXCEPT !.op = "emit", !.index = 0, !.value = 0, !.before = 0,
                            !.turns = @ + 1]
    /\ UNCHANGED <<params, svf, pc, variant, buffer, locals, writers, host, automation>>

\* Params::event without a host: self.params.set_parameter(index, value)
EventDirect ==
    /\ events # <<>>
    /\ ~host
    /\ SetParameter(Head(events)[1], Head(events)[2])
    /\ events' = Tail(events)
    /\ UNCHANGED <<writers, host, automation>>

\* Params::event with a host: begin_edit, automate(index, value), end_edit
EventAutomate ==
    /\ events # <<>>
    /\ host
    /\ automation' = Append(automation, Head(events))
    /\ events' = Tail(events)
    /\ hist' = [hist EXCEPT !.op = "automate", !.index = 0, !.value = 0, !.before = 0]
    /\ UNCHANGED <<params, svf, pc, variant, buffer, locals, writers, host>>

\* the host passes an automated value on: set_parameter(index, value)
HostSetParameter ==
    /\ automation # <<>>
    /\ SetParameter(Head(automation)[1], Head(automation)[2])
    /\ automation' = Tail(automation)
    /\ UNCHANGED <<writers, host, events>>

Next ==
    \/ \E index \in Indices, value \in Values : ControlWrite(index, value)
    \/ \E rate \in SampleRates : SetSampleRate(rate)
    \/ \E n \in 1..NumChannels, l \in 1..BlockLen : Process(n, l)
    \/ \E x \in Inputs : TickNewton(x)
    \/ NewtonIter
    \/ NewtonExit
    \/ UpdateState

Spec == Init /\ [][Next]_vars

NextSolvers ==
    \/ \E index \in Indices :
           \E value \in (IF index = 3 THEN ModeValues ELSE Values) :
               TestWrite(index, value)
    \/ \E x \in TestInputs : TestTickNewton(x)
    \/ \E x \in TestInputs : TickPivotal(x)
    \/ \E x \in TestInputs : RunSvfLinear(x)
    \/ \E x \in TestInputs : RunSvfNewton(x)
    \/ NewtonIter
    \/ NewtonExit
    \/ Newton1Iter
    \/ Newton1Exit
    \/ UpdateState

SpecSolvers == Init /\ [][NextSolvers]_vars

NextWriters ==
    \/ \E t \in 1..NumWriters, value \in RaceValues : WriteCutoff(t, value)
    \/ \E t \in 1..NumWriters : ReadCutoff(t)
    \/ \E t \in 1..NumWriters : ReadRate(t)
    \/ \E t \in 1..NumWriters : WriteG(t)

SpecWriters == Init /\ [][NextWriters]_vars

NextSurface ==
    \/ \E knob \in Knobs, ft \in FilterTypes, value \in RaceValues :
           KnobChanging(knob, ft, value)
    \/ EventDirect
    \/ EventAutomate
    \/ HostSetParameter

\* the plugin built by SVF::default() or by the host through Plugin::new
InitSurface == Init \/ New

SpecSurface == InitSurface /\ [][NextSurface]_vars

(***************************************************************************)
(* The claims.                                                             *)
(***************************************************************************)
\* C1: after any sequence of set_parameter and set_sample_rate calls the
\* stored g is tan(pi * cutoff / sample_rate) of the stored cutoff and the
\* stored sample rate, so no tick runs with a stale g.
C1_GFollowsCutoffAndRate == g = update_g(cutoff, sample_rate)

\* C2: the Newton loop of run_svf_newton2 makes at most MaxIterations + 1
\* = 101 updates of the estimate in one sample.
C2_AtMost101Iterations == n_iterations <= MaxIterations + 1

\* C2 as stated: at most 100 updates in one sample.
C2_AtMost100Iterations == n_iterations <= MaxIterations

C2_CapReached ==
    /\ pc = "solved"
    /\ variant = "tick_newton"
    /\ hist.capped
    /\ n_iterations = MaxIterations + 1

\* C3: when the loop of run_svf_newton2 is left by its cap, the last estimate
\* is stored in vout, the output is the mode's combination of that estimate,
\* update_state still runs on it, and control returns to the sample loop.
C3_CapIsRecoverable ==
    hist.capped =>
        /\ pc \in {"solved", "tick", "idle"}
        /\ pc = "solved" =>
              /\ vout = v_est
              /\ out = (CASE hist.mode_used = 0 -> v_est[2]
                          [] hist.mode_used = 1 -> input - Mul(k_loc, v_est[1]) - v_est[2]
                          [] hist.mode_used = 2 -> v_est[1]
                          [] hist.mode_used = 3 -> input - Mul(k_loc, v_est[1])
                          [] hist.mode_used = 4 -> input - 2 * v_est[2] - Mul(k_loc, v_est[1])
                          [] OTHER -> Mul(k_loc, v_est[1]))
        /\ pc \in {"tick", "idle"} =>
              /\ s[1] = 2 * v_est[1] - hist.s_pre[1]
              /\ s[2] = 2 * v_est[2] - hist.s_pre[2]
              /\ output_sample = out

\* a sample solved within the tolerance after an earlier one hit the cap
C3_NextSampleAfterCap ==
    /\ hist.caps > 0
    /\ ~hist.capped
    /\ pc = "solved"
    /\ n_iterations > 0
    /\ ~above_tolerance(residue)

\* C4: a tick's solve leaves s alone, and its update_state makes each s[n]
\* 2 * vout[n] minus the s[n] of before the tick, vout being what the solver
\* of that tick stored.
C4_TrapezoidalUpdateOnce ==
    /\ pc \in {"newton", "newton1", "solved"} => s = hist.s_pre
    /\ hist.op = "update_state" =>
          /\ s[1] = 2 * vout[1] - hist.s_pre[1]
          /\ s[2] = 2 * vout[2] - hist.s_pre[2]
          /\ pc # "solved"

C4_PivotalTickUpdated ==
    /\ hist.op = "update_state"
    /\ variant = "tick_pivotal"
    /\ hist.s_pre[1] # 0
    /\ hist.s_pre[2] # 0
    /\ vout[1] # 0
    /\ s # hist.s_pre

\* C5: no tick of process() runs on integrator state that a tick of another
\* channel of the buffer has written.
C5_ChannelsOwnTheirState == ~hist.foreign

\* C6: the g, resonance, drive and mode a sample of a block is solved with
\* are the ones stored when process() was entered for that block.
C6_BlockUsesEntryValues ==
    variant = "tick_newton" /\ pc \in {"newton", "solved"} =>
        /\ g_loc = hist.blk[1]
        /\ k_loc = hist.blk[2]
        /\ hist.drive_used = hist.blk[3]
        /\ pc = "solved" => hist.mode_used = hist.blk[4]

\* C7: a write of a new value to cutoff, resonance or drive does not put the
\* target in the cell the filter reads at once: the value moves there over
\* the following samples.
C7_WriteIsSmoothed ==
    /\ hist.op = "set_parameter"
    /\ hist.index \in {0, 1, 2}
    /\ hist.value # hist.before
    => get_parameter(hist.index) # hist.value

\* C8: set_parameter with an index outside {0, 1, 2, 3} leaves cutoff,
\* resonance, drive, mode, sample rate and g unchanged, and get_parameter
\* with such an index returns 0.
C8_InvalidIndexIgnored ==
    /\ [][hist'.op = "set_parameter" /\ hist'.index \notin {0, 1, 2, 3}
            => UNCHANGED params]_vars
    /\ [](\A index \in Indices \ {0, 1, 2, 3} : get_parameter(index) = 0)

C8_InvalidIndexWritten ==
    /\ hist.op = "set_parameter"
    /\ hist.index \notin {0, 1, 2, 3}
    /\ hist.value # 0
    /\ hist.ticks > 0

\* C9: set_parameter and set_sample_rate leave s and vout unchanged; only
\* a tick (its solver's store of vout, its update_state) changes them.
C9_ParamsLeaveStateAlone ==
    /\ [][hist'.op \in {"set_parameter", "set_sample_rate"}
            => UNCHANGED <<s, vout>>]_vars
    /\ [][<<s, vout>>' # <<s, vout>>
            => hist'.op \in {"newton_exit", "update_state"}]_vars

C9_WriteOnLiveState ==
    /\ hist.op \in {"set_parameter", "set_sample_rate"}
    /\ s[1] # 0
    /\ vout[1] # 0

\* C10: every solver returns the mode's combination of the vout it stored
\* and its input: 0 -> vout[1]; 1 -> input - k * vout[0] - vout[1];
\* 2 -> vout[0]; 3 -> input - k * vout[0]; 4 -> input - 2 * vout[1]
\* - k * vout[0]; any other mode -> k * vout[0].
C10_ModeTable ==
    pc = "solved" \/ hist.op \in {"run_svf_linear", "newton1_exit"} =>
        out = (CASE hist.mode_used = 0 -> vout[2]
                 [] hist.mode_used = 1 -> input - Mul(k_loc, vout[1]) - vout[2]
                 [] hist.mode_used = 2 -> vout[1]
                 [] hist.mode_used = 3 -> input - Mul(k_loc, vout[1])
                 [] hist.mode_used = 4 -> input - 2 * vout[2] - Mul(k_loc, vout[1])
                 [] OTHER -> Mul(k_loc, vout[1]))

C10_PeakOfFixedPivot ==
    /\ pc = "solved"
    /\ variant = "tick_pivotal"
    /\ hist.mode_used = 4
    /\ k_loc # 0
    /\ input # 0
    /\ vout[1] # 0
    /\ vout[2] # 0

\* C11: in a tick (tick_newton, tick_pivotal) the sample is multiplied by
\* (drive + 1) once on its way to the solver: the solver's input is the
\* sample times (drive + 1), and the estimates the tick asks get_estimate
\* for multiply nothing by it again.
C11_DriveAppliedOnce ==
    variant \in {"tick_newton", "tick_pivotal"} =>
        /\ hist.gains = 1
        /\ input = driven(hist.raw, hist.drive_used)

C11_DrivenPivotalTick ==
    /\ pc = "solved"
    /\ variant = "tick_pivotal"
    /\ hist.drive_used > 0
    /\ hist.raw # 0
    /\ hist.gains = 1
    /\ input = driven(hist.raw, hist.drive_used)
    /\ input # hist.raw

C13_GOfStoredCutoff ==
    (\A t \in 1..NumWriters : writers[t].pc = "idle") =>
        g = update_g(cutoff, sample_rate)

\* C14: a tick_newton call with input 0 on an SVF whose s is [0, 0], as it
\* is after SVF::default() and after every such call, runs no Newton
\* iteration, returns 0 whatever the mode, resonance, drive and cutoff are,
\* and leaves s and vout at [0, 0].
C14_ZeroIsFixedPoint ==
    (variant = "tick_newton" /\ hist.raw = 0 /\ hist.s_pre = <<0, 0>>) =>
        /\ n_iterations = 0
        /\ s = <<0, 0>>
        /\ input = 0
        /\ v_est = <<0, 0>>
        /\ ~above_tolerance(residue)
        /\ pc # "newton" => vout = <<0, 0>> /\ out = 0

C14_SecondSilentTick ==
    /\ variant = "tick_newton"
    /\ hist.op = "update_state"
    /\ hist.ticks = 2
    /\ hist.zeros = 2
    /\ hist.raw = 0
    /\ hist.s_pre = <<0, 0>>
    /\ hist.mode_used = 4
    /\ k_loc # 0
    /\ s = <<0, 0>>
    /\ vout = <<0, 0>>
    /\ out = 0

\* C15: a set_parameter call that a knob of the control surface raised has
\* set the knob's parameter to the knob's value: cutoff, resonance and drive
\* for the indices 0, 1 and 2, the mode for the index the mode knob emits
\* (filter type 0); an index of no parameter is never emitted.
C15_KnobSetsItsParameter ==
    hist.op = "set_parameter" =>
        CASE hist.index = 0 -> cutoff = cutoff_set_normalized(hist.value)
          [] hist.index = 1 -> res = res_set_normalized(hist.value)
          [] hist.index = 2 -> drive = drive_set_normalized(hist.value)
          [] hist.index = emitted_index("mode_or_slope", 0) ->
                 mode = mode_set_normalized(hist.value)
          [] OTHER -> FALSE

====
